---- MODULE Spec2Model ----
(***************************************************************************)
(* Lifecycle adapters of the exoscale provider: the security group         *)
(* resource (exoscale/resource_exoscale_security_group.go) and the elastic *)
(* IP resource (resourceElasticIP...).  A handler is one action: it runs   *)
(* its whole sequence of remote calls and leaves the resource data, the    *)
(* call log and the diagnostics it returns; the host then persists the     *)
(* data.  One run manages one resource instance of one type.               *)
(*                                                                         *)
(* Strings are sequences of one-character strings, so that lower-casing    *)
(* and suffix trimming are computed.  An optional (pointer) value is a set *)
(* of at most one element: {} is nil, {v} points at v.                     *)
(***************************************************************************)
EXTENDS Integers, Sequences, FiniteSets, TLC

VARIABLES resourceType, remote, state, inv, nextID

vars == <<resourceType, remote, state, inv, nextID>>

----------------------------------------------------------------------------
(* Bounds of the model. *)

\* Remote objects the provider-side API hands an identifier to in one run.
MaxObjects == 2

----------------------------------------------------------------------------
(* Pointers and strings. *)

Nil == {}

Ptr(v) == {v}

Deref(p) == CHOOSE v \in p : TRUE

\* nonEmptyStringPtr: nil for the empty string, else a pointer to it.
nonEmptyStringPtr(s) == IF s = <<>> THEN Nil ELSE Ptr(s)

\* defaultString: the pointed-at value, or the default when nil.
defaultString(p, def) == IF p = Nil THEN def ELSE Deref(p)

\* defaultBool: the pointed-at value, or the default when nil.
defaultBool(p, def) == IF p = Nil THEN def ELSE Deref(p)

LowerChar(c) ==
    CASE c = "W" -> "w"
      [] c = "E" -> "e"
      [] c = "B" -> "b"
      [] OTHER -> c

\* strings.ToLower
ToLower(s) == [i \in 1..Len(s) |-> LowerChar(s[i])]

\* strings.TrimSuffix
TrimSuffix(s, suffix) ==
    IF /\ Len(s) >= Len(suffix)
       /\ SubSeq(s, Len(s) - Len(suffix) + 1, Len(s)) = suffix
    THEN SubSeq(s, 1, Len(s) - Len(suffix))
    ELSE s

Digits == <<"1", "2", "3", "4", "5", "6", "7", "8", "9">>

\* The identifier the remote API assigns to its n-th object.
IdOf(n) == <<"i", "d", Digits[n]>>

----------------------------------------------------------------------------
(* Remote calls.  Every call can fail, with the distinguished not-found    *)
(* error or with any other error.  A call that fails with another error    *)
(* changes nothing remotely; a call that reports not-found finds its object *)
(* gone, deleted behind the adapter's back; a call that succeeds acts on   *)
(* the remote store.  A call's possible results are a set of records: the  *)
(* log entry of the call and the store after it.                           *)

ErrNotFound == "NotFound"

ErrOther == "Other"

Errors == {ErrNotFound, ErrOther}

Call(op, arg, res, val) == [op |-> op, arg |-> arg, res |-> res, val |-> val]

\* gone is the store without the object the call is about.
Failures(op, arg, store, gone) ==
    {[call |-> Call(op, arg, ErrOther, Nil), remote |-> store],
     [call |-> Call(op, arg, ErrNotFound, Nil), remote |-> gone]}

\* The store without the object of identifier id.
Without(store, id) == {x \in store : x.id # id}

\* The store of elastic IPs with the reverse-DNS record of id gone.
WithoutReverseDNS(store, id) ==
    {IF x.id = id THEN [x EXCEPT !.rdns = Nil] ELSE x : x \in store}

Failed(r) == r.call.res # "ok"

\* A handler's possible outcomes: the resource data d it leaves, the remote
\* store, the calls it issued in order, and what it returned ("ok" for no
\* diagnostics, "error" for a non-empty diagnostic, "panic" for a nil
\* dereference).
Outcome(d, store, calls, diag) ==
    [d |-> d, remote |-> store, calls |-> calls, diag |-> diag]

\* The outcomes rs of the rest of a handler, after the calls in prefix.
After(prefix, rs) == {[r EXCEPT !.calls = prefix \o r.calls] : r \in rs}

----------------------------------------------------------------------------
(* Security group: data. *)

CIDRs == {"10.0.0.0/24", "192.168.0.0/16"}

SGNames == {<<"W", "e", "b">>, <<"w", "e", "b">>, <<"d", "b">>}

Descriptions == {<<>>, <<"d">>}

\* The resource data of a security group that is not tracked.
NoSecurityGroup ==
    [id |-> <<>>, name |-> <<>>, description |-> <<>>, external_sources |-> {}]

SGConfigs ==
    [name : SGNames, description : Descriptions, external_sources : SUBSET CIDRs]

\* The egoscale.SecurityGroup the API returns for a stored group g.  A group
\* with no external source comes back with a nil list or an empty one.
SecurityGroupObjects(g) ==
    {[ID |-> Ptr(g.id),
      Name |-> Ptr(g.name),
      Description |-> nonEmptyStringPtr(g.description),
      ExternalSources |-> es] :
        es \in IF g.external_sources = {}
               THEN {Nil, Ptr({})}
               ELSE {Ptr(g.external_sources)}}

\* client.CreateSecurityGroup: the backend stores the name in lower case.
CreateSecurityGroup(store, req, newID) ==
    Failures("CreateSecurityGroup", req, store, store) \cup
    LET g == [id |-> newID,
              name |-> ToLower(defaultString(req.Name, <<>>)),
              description |-> defaultString(req.Description, <<>>),
              external_sources |-> {}]
    IN  {[call |-> Call("CreateSecurityGroup", req, "ok", o),
          remote |-> store \cup {g}] : o \in SecurityGroupObjects(g)}

\* client.GetSecurityGroup: by identifier only.
GetSecurityGroup(store, id) ==
    Failures("GetSecurityGroup", id, store, Without(store, id)) \cup
    UNION {{[call |-> Call("GetSecurityGroup", id, "ok", o), remote |-> store] :
              o \in SecurityGroupObjects(g)} : g \in {x \in store : x.id = id}}

\* client.FindSecurityGroup: by identifier or by name.
FindSecurityGroup(store, x) ==
    Failures("FindSecurityGroup", x, store,
             {y \in store : y.id # x /\ y.name # x}) \cup
    UNION {{[call |-> Call("FindSecurityGroup", x, "ok", o), remote |-> store] :
              o \in SecurityGroupObjects(g)} :
                g \in {y \in store : y.id = x \/ y.name = x}}

\* client.AddExternalSourceToSecurityGroup
AddExternalSourceToSecurityGroup(store, securityGroup, cidr) ==
    Failures("AddExternalSourceToSecurityGroup", cidr, store,
             Without(store, Deref(securityGroup.ID))) \cup
    {[call |-> Call("AddExternalSourceToSecurityGroup", cidr, "ok", Nil),
      remote |-> (store \ {g}) \cup
                 {[g EXCEPT !.external_sources = @ \cup {cidr}]}] :
        g \in {x \in store : x.id = Deref(securityGroup.ID)}}

\* client.RemoveExternalSourceFromSecurityGroup
RemoveExternalSourceFromSecurityGroup(store, securityGroup, cidr) ==
    Failures("RemoveExternalSourceFromSecurityGroup", cidr, store,
             Without(store, Deref(securityGroup.ID))) \cup
    {[call |-> Call("RemoveExternalSourceFromSecurityGroup", cidr, "ok", Nil),
      remote |-> (store \ {g}) \cup
                 {[g EXCEPT !.external_sources = @ \ {cidr}]}] :
        g \in {x \in store : x.id = Deref(securityGroup.ID)}}

\* client.DeleteSecurityGroup
DeleteSecurityGroup(store, securityGroup) ==
    Failures("DeleteSecurityGroup", securityGroup.ID, store,
             {x \in store : Ptr(x.id) # securityGroup.ID}) \cup
    {[call |-> Call("DeleteSecurityGroup", securityGroup.ID, "ok", Nil),
      remote |-> store \ {g}] :
        g \in {x \in store : Ptr(x.id) = securityGroup.ID}}

----------------------------------------------------------------------------
(* Security group: handlers. *)

\* resourceSecurityGroupApply without the write of the name.
MutantApplyKeepsName(d, securityGroup) ==
    LET d2 == IF securityGroup.ExternalSources # Nil
              THEN [d EXCEPT !.external_sources =
                                 Deref(securityGroup.ExternalSources)]
              ELSE d
    IN  [d2 EXCEPT !.description = defaultString(securityGroup.Description, <<>>)]

\* resourceSecurityGroupApply: name always, external sources only when the
\* remote list is not nil, description with "" for nil.
resourceSecurityGroupApply(d, securityGroup) ==
    LET d1 == [d EXCEPT !.name = Deref(securityGroup.Name)]
        d2 == IF securityGroup.ExternalSources # Nil
              THEN [d1 EXCEPT !.external_sources =
                                  Deref(securityGroup.ExternalSources)]
              ELSE d1
    IN  [d2 EXCEPT !.description = defaultString(securityGroup.Description, <<>>)]

\* resourceSecurityGroupRead with the not-found branch lost: every fetch
\* error is returned and the identifier stays.
MutantReadSurfacesNotFound(d, store) ==
    {IF Failed(r)
     THEN Outcome(d, r.remote, <<r.call>>, "error")
     ELSE Outcome(resourceSecurityGroupApply(d, r.call.val), r.remote,
                  <<r.call>>, "ok") :
        r \in GetSecurityGroup(store, d.id)}

\* resourceSecurityGroupRead
resourceSecurityGroupRead(d, store) ==
    {IF Failed(r)
     THEN IF r.call.res = ErrNotFound
          THEN Outcome([d EXCEPT !.id = <<>>], r.remote, <<r.call>>, "ok")
          ELSE Outcome(d, r.remote, <<r.call>>, "error")
     ELSE Outcome(resourceSecurityGroupApply(d, r.call.val), r.remote,
                  <<r.call>>, "ok") :
        r \in GetSecurityGroup(store, d.id)}

\* The loops over added.List() and removed.List(): one call per element, in
\* the order the set lists them, stopping at the first call that fails.
\* Returns the possible [calls, remote, err] of the loop.
RECURSIVE ExternalSourceCalls(_, _, _, _)
ExternalSourceCalls(add, store, securityGroup, cidrs) ==
    IF cidrs = {}
    THEN {[calls |-> <<>>, remote |-> store, err |-> FALSE]}
    ELSE UNION {UNION {
             IF Failed(r)
             THEN {[calls |-> <<r.call>>, remote |-> r.remote, err |-> TRUE]}
             ELSE {[l EXCEPT !.calls = <<r.call>> \o @] :
                     l \in ExternalSourceCalls(add, r.remote, securityGroup,
                                               cidrs \ {cidr})} :
               r \in IF add
                     THEN AddExternalSourceToSecurityGroup(store, securityGroup, cidr)
                     ELSE RemoveExternalSourceFromSecurityGroup(store, securityGroup, cidr)} :
           cidr \in cidrs}

\* resourceSecurityGroupCreate: d holds the configuration; the identifier is
\* stored after the external sources were added.
resourceSecurityGroupCreate(d, store, newID) ==
    UNION {
      IF Failed(c)
      THEN {Outcome(d, c.remote, <<c.call>>, "error")}
      ELSE UNION {
             IF l.err
             THEN {Outcome(d, l.remote, <<c.call>> \o l.calls, "error")}
             ELSE After(<<c.call>> \o l.calls,
                        resourceSecurityGroupRead(
                            [d EXCEPT !.id = Deref(c.call.val.ID)], l.remote)) :
               l \in ExternalSourceCalls(TRUE, c.remote, c.call.val,
                                         d.external_sources)} :
        c \in CreateSecurityGroup(
                  store,
                  [Name |-> nonEmptyStringPtr(d.name),
                   Description |-> nonEmptyStringPtr(d.description)],
                  newID)}

\* added := cur.Difference(old), under d.HasChange(external_sources)
AddedSources(d, old) ==
    IF old.external_sources # d.external_sources
    THEN d.external_sources \ old.external_sources
    ELSE {}

\* removed computed without the difference: every last-known source.
MutantRemovedAllOld(d, old) ==
    IF old.external_sources # d.external_sources
    THEN old.external_sources
    ELSE {}

\* removed := old.Difference(cur), under d.HasChange(external_sources)
RemovedSources(d, old) ==
    IF old.external_sources # d.external_sources
    THEN old.external_sources \ d.external_sources
    ELSE {}

\* resourceSecurityGroupUpdate: old is the last-known state, d the desired one.
resourceSecurityGroupUpdate(d, old, store) ==
    UNION {
      IF Failed(g)
      THEN {Outcome(d, g.remote, <<g.call>>, "error")}
      ELSE LET added == AddedSources(d, old)
               removed == RemovedSources(d, old)
           IN UNION {
                IF a.err
                THEN {Outcome(d, a.remote, <<g.call>> \o a.calls, "error")}
                ELSE UNION {
                       IF r.err
                       THEN {Outcome(d, r.remote,
                                     <<g.call>> \o a.calls \o r.calls, "error")}
                       ELSE After(<<g.call>> \o a.calls \o r.calls,
                                  resourceSecurityGroupRead(d, r.remote)) :
                         r \in ExternalSourceCalls(FALSE, a.remote, g.call.val,
                                                   removed)} :
                  a \in ExternalSourceCalls(TRUE, g.remote, g.call.val, added)} :
        g \in GetSecurityGroup(store, d.id)}

\* resourceSecurityGroupDelete treating a group that is already gone as
\* deleted.
MutantDeleteIgnoresNotFound(d, store) ==
    {Outcome(d, r.remote, <<r.call>>,
             IF r.call.res = ErrOther THEN "error" ELSE "ok") :
        r \in DeleteSecurityGroup(store, [ID |-> nonEmptyStringPtr(d.id)])}

\* resourceSecurityGroupDelete
resourceSecurityGroupDelete(d, store) ==
    {Outcome(d, r.remote, <<r.call>>, IF Failed(r) THEN "error" ELSE "ok") :
        r \in DeleteSecurityGroup(store, [ID |-> nonEmptyStringPtr(d.id)])}

\* resourceSecurityGroupImport: d.id is the identifier the operator gave.
resourceSecurityGroupImport(d, store) ==
    {IF Failed(r)
     THEN Outcome(d, r.remote, <<r.call>>, "error")
     ELSE Outcome(resourceSecurityGroupApply(d, r.call.val), r.remote,
                  <<r.call>>, "ok") :
        r \in FindSecurityGroup(store, d.id)}

----------------------------------------------------------------------------
(* Security group: the state upgrade from schema version 0. *)

\* A value of the raw state map (interface{}): a string, the nil of a JSON
\* null, or a number.
StringValue(s) == [type |-> "string", str |-> s]

NilValue == [type |-> "nil"]

NumberValue(n) == [type |-> "float64", num |-> n]

\* The raw states the upgrade is applied to: any of the keys may be missing,
\* the name may be a string in any case, null or a number.
RawValues ==
    [k \in {"id", "name", "description"} |->
       CASE k = "id" -> {StringValue(IdOf(1)), StringValue(IdOf(2))}
         [] k = "name" -> {StringValue(n) : n \in SGNames \cup {<<"W", "E", "B">>}}
                          \cup {NilValue, NumberValue(7)}
         [] k = "description" -> {StringValue(<<"W">>), NilValue}]

RawStates ==
    UNION {{f \in [K -> UNION {RawValues[k] : k \in K}] :
              \A k \in K : f[k] \in RawValues[k]} :
           K \in SUBSET DOMAIN RawValues}

\* The upgrade that lower-cases every string of the raw state.
MutantUpgradeLowersAll(rawState) ==
    IF "name" \in DOMAIN rawState /\ rawState["name"].type = "string"
    THEN [state |-> Ptr([k \in DOMAIN rawState |->
                           IF rawState[k].type = "string"
                           THEN StringValue(ToLower(rawState[k].str))
                           ELSE rawState[k]]),
          err |-> FALSE]
    ELSE [state |-> Nil, err |-> TRUE]

\* The upgrade that passes a raw state it cannot read a name from.
MutantUpgradeSkipsBadName(rawState) ==
    IF "name" \in DOMAIN rawState /\ rawState["name"].type = "string"
    THEN [state |-> Ptr([rawState EXCEPT
                           !["name"] = StringValue(ToLower(rawState["name"].str))]),
          err |-> FALSE]
    ELSE [state |-> Ptr(rawState), err |-> FALSE]

\* resourceSecurityGroupStateUpgradeV0: the returned map (nil with an error)
\* and whether an error is returned.  The name is lower-cased when it is a
\* string; the type assertion fails for a missing key and for any other type.
resourceSecurityGroupStateUpgradeV0(rawState) ==
    IF "name" \in DOMAIN rawState /\ rawState["name"].type = "string"
    THEN [state |-> Ptr([rawState EXCEPT
                           !["name"] = StringValue(ToLower(rawState["name"].str))]),
          err |-> FALSE]
    ELSE [state |-> Nil, err |-> TRUE]

----------------------------------------------------------------------------
(* Elastic IP: data. *)

\* The schema defaults of the healthcheck block.
DefaultInterval == 10

DefaultTimeout == 3

DefaultStrikesFail == 2

DefaultStrikesOK == 3

\* time.Second, in the unit the model counts durations in (milliseconds).
Second == 1000

\* time.Duration(v) * time.Second
ToDuration(v) == v * Second

\* Duration.Seconds(), written into an integer attribute.
Seconds(dur) == dur \div Second

\* uint16(v)
ToUint16(v) == v % 65536

ModeTCP == <<"t", "c", "p">>

ModeHTTPS == <<"h", "t", "t", "p", "s">>

\* A healthcheck block as written in the configuration: mode and port are
\* required, every other attribute is nil when omitted.
HealthcheckBlocks ==
    {[mode |-> ModeTCP, port |-> 80, interval |-> Nil, timeout |-> Nil,
      strikes_fail |-> Nil, strikes_ok |-> Nil, tls_sni |-> Nil,
      tls_skip_verify |-> Nil, uri |-> Nil],
     [mode |-> ModeHTTPS, port |-> 443, interval |-> Nil, timeout |-> Ptr(2),
      strikes_fail |-> Nil, strikes_ok |-> Nil, tls_sni |-> Ptr(<<"s">>),
      tls_skip_verify |-> Ptr(TRUE), uri |-> Ptr(<<"/">>)]}

LabelMaps == {{}, {<<"env", "prod">>}}

ReverseDNSNames == {<<>>, <<"a">>, <<"a", ".">>}

EIPConfigs ==
    [description : Descriptions,
     labels : LabelMaps,
     reverse_dns : ReverseDNSNames,
     healthcheck : {<<>>} \cup {<<b>> : b \in HealthcheckBlocks}]

\* resourceElasticIPHealthcheck for a schema without defaults: an omitted
\* attribute reads as the zero value of its type.
MutantHealthcheckNoDefaults(blocks) ==
    [i \in 1..Len(blocks) |->
       LET b == blocks[i]
       IN [interval |-> IF b.interval = Nil THEN 0 ELSE Deref(b.interval),
           mode |-> b.mode,
           port |-> b.port,
           strikes_fail |-> IF b.strikes_fail = Nil THEN 0
                            ELSE Deref(b.strikes_fail),
           strikes_ok |-> IF b.strikes_ok = Nil THEN 0
                          ELSE Deref(b.strikes_ok),
           tls_sni |-> IF b.tls_sni = Nil THEN <<>> ELSE Deref(b.tls_sni),
           tls_skip_verify |-> IF b.tls_skip_verify = Nil THEN FALSE
                               ELSE Deref(b.tls_skip_verify),
           timeout |-> IF b.timeout = Nil THEN 0 ELSE Deref(b.timeout),
           uri |-> IF b.uri = Nil THEN <<>> ELSE Deref(b.uri)]]

\* The healthcheck list d.Get returns for a configured list of blocks: the
\* schema fills every omitted attribute with its default, or with the zero
\* value when it has none.
resourceElasticIPHealthcheck(blocks) ==
    [i \in 1..Len(blocks) |->
       LET b == blocks[i]
       IN [interval |-> IF b.interval = Nil THEN DefaultInterval ELSE Deref(b.interval),
           mode |-> b.mode,
           port |-> b.port,
           strikes_fail |-> IF b.strikes_fail = Nil THEN DefaultStrikesFail
                            ELSE Deref(b.strikes_fail),
           strikes_ok |-> IF b.strikes_ok = Nil THEN DefaultStrikesOK
                          ELSE Deref(b.strikes_ok),
           tls_sni |-> IF b.tls_sni = Nil THEN <<>> ELSE Deref(b.tls_sni),
           tls_skip_verify |-> IF b.tls_skip_verify = Nil THEN FALSE
                               ELSE Deref(b.tls_skip_verify),
           timeout |-> IF b.timeout = Nil THEN DefaultTimeout ELSE Deref(b.timeout),
           uri |-> IF b.uri = Nil THEN <<>> ELSE Deref(b.uri)]]

\* What d.Get("healthcheck.0.<a>") returns when the list is empty.
ZeroHealthcheck ==
    [interval |-> 0, mode |-> <<>>, port |-> 0, strikes_fail |-> 0,
     strikes_ok |-> 0, tls_sni |-> <<>>, tls_skip_verify |-> FALSE,
     timeout |-> 0, uri |-> <<>>]

\* resElasticIPAttrHealthcheck: the record d.Get reads "healthcheck.0.<a>" from.
resElasticIPAttrHealthcheck(d) ==
    IF d.healthcheck = <<>> THEN ZeroHealthcheck ELSE d.healthcheck[1]

\* The resource data of an elastic IP that is not tracked.
NoElasticIP ==
    [id |-> <<>>, description |-> <<>>, labels |-> {}, reverse_dns |-> <<>>,
     healthcheck |-> <<>>]

\* client.CreateElasticIP: the API stores the object it receives and gives it
\* an identifier.  A stored elastic IP is its object and its reverse-DNS
\* record (nil when there is none).
CreateElasticIP(store, elasticIP, newID) ==
    Failures("CreateElasticIP", elasticIP, store, store) \cup
    LET o == [elasticIP EXCEPT !.ID = Ptr(newID)]
    IN  {[call |-> Call("CreateElasticIP", elasticIP, "ok", o),
          remote |-> store \cup {[id |-> newID, obj |-> o, rdns |-> Nil]}]}

\* client.GetElasticIP
GetElasticIP(store, id) ==
    Failures("GetElasticIP", id, store, Without(store, id)) \cup
    {[call |-> Call("GetElasticIP", id, "ok", e.obj), remote |-> store] :
        e \in {x \in store : x.id = id}}

\* client.UpdateElasticIP
UpdateElasticIP(store, elasticIP) ==
    Failures("UpdateElasticIP", elasticIP, store,
             {x \in store : Ptr(x.id) # elasticIP.ID}) \cup
    {[call |-> Call("UpdateElasticIP", elasticIP, "ok", Nil),
      remote |-> (store \ {e}) \cup {[e EXCEPT !.obj = elasticIP]}] :
        e \in {x \in store : Ptr(x.id) = elasticIP.ID}}

\* client.DeleteElasticIP
DeleteElasticIP(store, elasticIP) ==
    Failures("DeleteElasticIP", elasticIP.ID, store,
             {x \in store : Ptr(x.id) # elasticIP.ID}) \cup
    {[call |-> Call("DeleteElasticIP", elasticIP.ID, "ok", Nil),
      remote |-> store \ {e}] :
        e \in {x \in store : Ptr(x.id) = elasticIP.ID}}

\* client.UpdateElasticIPReverseDNS
UpdateElasticIPReverseDNS(store, id, rdns) ==
    Failures("UpdateElasticIPReverseDNS", rdns, store, Without(store, id)) \cup
    {[call |-> Call("UpdateElasticIPReverseDNS", rdns, "ok", Nil),
      remote |-> (store \ {e}) \cup {[e EXCEPT !.rdns = Ptr(rdns)]}] :
        e \in {x \in store : x.id = id}}

\* client.DeleteElasticIPReverseDNS
DeleteElasticIPReverseDNS(store, id) ==
    Failures("DeleteElasticIPReverseDNS", id, store,
             WithoutReverseDNS(store, id)) \cup
    {[call |-> Call("DeleteElasticIPReverseDNS", id, "ok", Nil),
      remote |-> (store \ {e}) \cup {[e EXCEPT !.rdns = Nil]}] :
        e \in {x \in store : x.id = id}}

\* client.GetElasticIPReverseDNS: the record's name, "" with an error.
GetElasticIPReverseDNS(store, id) ==
    {[call |-> Call("GetElasticIPReverseDNS", id, f.call.res, <<>>),
      remote |-> f.remote] :
        f \in Failures("GetElasticIPReverseDNS", id, store,
                       WithoutReverseDNS(store, id))}
    \cup
    {[call |-> Call("GetElasticIPReverseDNS", id, "ok", defaultString(e.rdns, <<>>)),
      remote |-> store] :
        e \in {x \in store : x.id = id}}

----------------------------------------------------------------------------
(* Elastic IP: handlers. *)

\* The attributes of the healthcheck block Apply dereferences unguarded.
HealthcheckDereferenced(hc) ==
    {hc.Interval, hc.Mode, hc.Port, hc.StrikesFail, hc.StrikesOK, hc.Timeout}

\* resourceElasticIPApply: description, healthcheck (when the remote object
\* has one), then the reverse-DNS record is fetched (not-found is tolerated)
\* and written with its trailing dot trimmed, then the labels.
resourceElasticIPApply(d, store, elasticIP) ==
    LET d1 == [d EXCEPT !.description = defaultString(elasticIP.Description, <<>>)]
        hc == Deref(elasticIP.Healthcheck)
        d2 == IF elasticIP.Healthcheck # Nil
              THEN [d1 EXCEPT !.healthcheck =
                      <<[interval |-> Seconds(Deref(hc.Interval)),
                         mode |-> Deref(hc.Mode),
                         port |-> Deref(hc.Port),
                         strikes_fail |-> Deref(hc.StrikesFail),
                         strikes_ok |-> Deref(hc.StrikesOK),
                         tls_sni |-> defaultString(hc.TLSSNI, <<>>),
                         tls_skip_verify |-> defaultBool(hc.TLSSkipVerify, FALSE),
                         timeout |-> Seconds(Deref(hc.Timeout)),
                         uri |-> defaultString(hc.URI, <<>>)]>>]
              ELSE d1
    IN  IF elasticIP.Healthcheck # Nil /\ Nil \in HealthcheckDereferenced(hc)
        THEN {Outcome(d1, store, <<>>, "panic")}
        ELSE {IF Failed(r) /\ r.call.res # ErrNotFound
              THEN Outcome(d2, r.remote, <<r.call>>, "error")
              ELSE Outcome([d2 EXCEPT
                              !.reverse_dns = TrimSuffix(r.call.val, <<".">>),
                              !.labels = defaultString(elasticIP.Labels, {})],
                           r.remote, <<r.call>>, "ok") :
                r \in GetElasticIPReverseDNS(store, Deref(elasticIP.ID))}

\* resourceElasticIPRead
resourceElasticIPRead(d, store) ==
    UNION {
      IF Failed(r)
      THEN IF r.call.res = ErrNotFound
           THEN {Outcome([d EXCEPT !.id = <<>>], r.remote, <<r.call>>, "ok")}
           ELSE {Outcome(d, r.remote, <<r.call>>, "error")}
      ELSE After(<<r.call>>, resourceElasticIPApply(d, r.remote, r.call.val)) :
        r \in GetElasticIP(store, d.id)}

\* The request resourceElasticIPCreate builds from the configuration in d.
\* GetOk holds for a value that is set and not the zero value of its type.
\* The labels are copied inside the healthcheck branch.
resourceElasticIPCreateRequest(d) ==
    LET h == resElasticIPAttrHealthcheck(d)
        intPtr(v) == IF v # 0 THEN Ptr(v) ELSE Nil
        durPtr(v) == IF v # 0 THEN Ptr(ToDuration(v)) ELSE Nil
    IN  [ID |-> Nil,
         Description |-> IF d.description # <<>> THEN Ptr(d.description) ELSE Nil,
         Healthcheck |->
           IF h.mode # <<>>
           THEN Ptr([Mode |-> nonEmptyStringPtr(h.mode),
                     Port |-> Ptr(ToUint16(h.port)),
                     Interval |-> durPtr(h.interval),
                     StrikesFail |-> intPtr(h.strikes_fail),
                     StrikesOK |-> intPtr(h.strikes_ok),
                     TLSSNI |-> IF h.tls_sni # <<>>
                                THEN nonEmptyStringPtr(h.tls_sni) ELSE Nil,
                     TLSSkipVerify |-> IF h.tls_skip_verify
                                       THEN Ptr(h.tls_skip_verify) ELSE Nil,
                     Timeout |-> durPtr(h.timeout),
                     URI |-> IF h.uri # <<>> THEN nonEmptyStringPtr(h.uri) ELSE Nil])
           ELSE Nil,
         Labels |-> IF h.mode # <<>> /\ d.labels # {} THEN Ptr(d.labels) ELSE Nil]

\* resourceElasticIPCreate: the identifier is stored right after the create
\* call, before the reverse-DNS record is set.
resourceElasticIPCreate(d, store, newID) ==
    UNION {
      IF Failed(c)
      THEN {Outcome(d, c.remote, <<c.call>>, "error")}
      ELSE LET d1 == [d EXCEPT !.id = Deref(c.call.val.ID)]
           IN IF d.reverse_dns # <<>>
              THEN UNION {
                     IF Failed(u)
                     THEN {Outcome(d1, u.remote, <<c.call, u.call>>, "error")}
                     ELSE After(<<c.call, u.call>>,
                                resourceElasticIPRead(d1, u.remote)) :
                       u \in UpdateElasticIPReverseDNS(c.remote, d1.id,
                                                       d.reverse_dns)}
              ELSE After(<<c.call>>, resourceElasticIPRead(d1, c.remote)) :
        c \in CreateElasticIP(store, resourceElasticIPCreateRequest(d), newID)}

\* The healthcheck attributes resourceElasticIPUpdate finds changed.
HealthcheckChanges(d, old) ==
    LET n == resElasticIPAttrHealthcheck(d)
        o == resElasticIPAttrHealthcheck(old)
    IN  {a \in DOMAIN ZeroHealthcheck : n[a] # o[a]}

\* The object resourceElasticIPUpdate sends: the fetched object with every
\* changed simple attribute overwritten.
resourceElasticIPUpdateMerge(d, old, elasticIP) ==
    LET n == resElasticIPAttrHealthcheck(d)
        ch == HealthcheckChanges(d, old)
        hc == Deref(elasticIP.Healthcheck)
        e1 == IF d.labels # old.labels
              THEN [elasticIP EXCEPT !.Labels = Ptr(d.labels)] ELSE elasticIP
        e2 == IF d.description # old.description
              THEN [e1 EXCEPT !.Description = Ptr(d.description)] ELSE e1
    IN  IF ch = {}
        THEN e2
        ELSE [e2 EXCEPT !.Healthcheck = Ptr(
               [Mode |-> IF "mode" \in ch THEN Ptr(n.mode) ELSE hc.Mode,
                Port |-> IF "port" \in ch THEN Ptr(ToUint16(n.port)) ELSE hc.Port,
                Interval |-> IF "interval" \in ch
                             THEN Ptr(ToDuration(n.interval)) ELSE hc.Interval,
                StrikesFail |-> IF "strikes_fail" \in ch
                                THEN Ptr(n.strikes_fail) ELSE hc.StrikesFail,
                StrikesOK |-> IF "strikes_ok" \in ch
                              THEN Ptr(n.strikes_ok) ELSE hc.StrikesOK,
                Timeout |-> IF "timeout" \in ch
                            THEN Ptr(ToDuration(n.timeout)) ELSE hc.Timeout,
                TLSSNI |-> IF "tls_sni" \in ch THEN Ptr(n.tls_sni) ELSE hc.TLSSNI,
                TLSSkipVerify |-> IF "tls_skip_verify" \in ch
                                  THEN Ptr(n.tls_skip_verify) ELSE hc.TLSSkipVerify,
                URI |-> IF "uri" \in ch THEN Ptr(n.uri) ELSE hc.URI])]

\* The reverse-DNS step of resourceElasticIPUpdate and the concluding Read.
resourceElasticIPUpdateReverseDNS(d, old, store, id, prefix) ==
    IF d.reverse_dns # old.reverse_dns
    THEN UNION {
           IF Failed(r)
           THEN {Outcome(d, r.remote, prefix \o <<r.call>>, "error")}
           ELSE After(prefix \o <<r.call>>, resourceElasticIPRead(d, r.remote)) :
             r \in IF d.reverse_dns = <<>>
                   THEN DeleteElasticIPReverseDNS(store, id)
                   ELSE UpdateElasticIPReverseDNS(store, id, d.reverse_dns)}
    ELSE After(prefix, resourceElasticIPRead(d, store))

\* resourceElasticIPUpdate: old is the last-known state, d the desired one.
\* Writing a changed healthcheck attribute into a fetched object that has no
\* healthcheck is a nil dereference.
resourceElasticIPUpdate(d, old, store) ==
    UNION {
      IF Failed(g)
      THEN {Outcome(d, g.remote, <<g.call>>, "error")}
      ELSE LET elasticIP == g.call.val
               updated == \/ d.labels # old.labels
                          \/ d.description # old.description
                          \/ HealthcheckChanges(d, old) # {}
           IN IF HealthcheckChanges(d, old) # {} /\ elasticIP.Healthcheck = Nil
              THEN {Outcome(d, g.remote, <<g.call>>, "panic")}
              ELSE IF updated
              THEN UNION {
                     IF Failed(u)
                     THEN {Outcome(d, u.remote, <<g.call, u.call>>, "error")}
                     ELSE resourceElasticIPUpdateReverseDNS(
                              d, old, u.remote, Deref(elasticIP.ID),
                              <<g.call, u.call>>) :
                       u \in UpdateElasticIP(
                                 g.remote,
                                 resourceElasticIPUpdateMerge(d, old, elasticIP))}
              ELSE resourceElasticIPUpdateReverseDNS(
                       d, old, g.remote, Deref(elasticIP.ID), <<g.call>>) :
        g \in GetElasticIP(store, d.id)}

\* resourceElasticIPDelete without the not-found tolerance: any error of the
\* reverse-DNS delete fails Delete.
MutantDeleteStrictReverseDNS(d, store) ==
    UNION {
      IF Failed(r)
      THEN {Outcome(d, r.remote, <<r.call>>, "error")}
      ELSE {Outcome(d, e.remote, <<r.call, e.call>>,
                    IF Failed(e) THEN "error" ELSE "ok") :
              e \in DeleteElasticIP(r.remote, [ID |-> Ptr(d.id)])} :
        r \in DeleteElasticIPReverseDNS(store, d.id)}

\* resourceElasticIPDelete: the reverse-DNS record first (not-found is
\* tolerated), then the elastic IP.
resourceElasticIPDelete(d, store) ==
    UNION {
      IF Failed(r) /\ r.call.res # ErrNotFound
      THEN {Outcome(d, r.remote, <<r.call>>, "error")}
      ELSE {Outcome(d, e.remote, <<r.call, e.call>>,
                    IF Failed(e) THEN "error" ELSE "ok") :
              e \in DeleteElasticIP(r.remote, [ID |-> Ptr(d.id)])} :
        r \in DeleteElasticIPReverseDNS(store, d.id)}

----------------------------------------------------------------------------
(* The host engine and the security group actions. *)

SecurityGroup == "exoscale_security_group"

ElasticIP == "exoscale_elastic_ip"

ResourceTypes == {SecurityGroup, ElasticIP}

\* No handler is running.
Idle ==
    [op |-> "idle", arg |-> Nil, prior |-> Nil, d |-> Nil, calls |-> <<>>,
     diag |-> "ok"]

\* A handler has returned: what it was called with and what it left.
Invocation(op, arg, prior, r) ==
    [op |-> op, arg |-> arg, prior |-> prior, d |-> r.d, calls |-> r.calls,
     diag |-> r.diag]

\* The keys of the timeouts block (schema.TimeoutCreate, ...).
TimeoutCreate == "create"

TimeoutRead == "read"

TimeoutUpdate == "update"

TimeoutDelete == "delete"

\* The timeouts a resource data may carry: for every key the resource
\* declares, the default or the duration the operator has set.  The security
\* group declares no update timeout.
ResourceTimeouts ==
    LET byDefault == [k \in {TimeoutCreate, TimeoutRead, TimeoutUpdate, TimeoutDelete}
                        |-> Ptr(300 * Second)]
        overridden == (TimeoutCreate :> Ptr(30 * Second)) @@
                      (TimeoutRead :> Ptr(60 * Second)) @@
                      (TimeoutUpdate :> Ptr(90 * Second)) @@
                      (TimeoutDelete :> Ptr(120 * Second))
    IN  IF resourceType = SecurityGroup
        THEN {[t EXCEPT ![TimeoutUpdate] = Nil] : t \in {byDefault, overridden}}
        ELSE {byDefault, overridden}

\* The key each handler passes to d.Timeout for the deadline of its context.
\* Import is zonedStateContextFunc for the elastic IP, which is not in this
\* source and is never called here.
TimeoutKey(op) ==
    IF resourceType = SecurityGroup
    THEN CASE op = "Create" -> TimeoutCreate
           [] op = "Read" -> TimeoutRead
           [] op = "Update" -> TimeoutDelete
           [] op = "Delete" -> TimeoutDelete
           [] op = "Import" -> TimeoutRead
    ELSE CASE op = "Create" -> TimeoutCreate
           [] op = "Read" -> TimeoutRead
           [] op = "Update" -> TimeoutDelete
           [] op = "Delete" -> TimeoutDelete

\* context.WithTimeout(ctx, d.Timeout(key)): the handler's record with the
\* timeouts its data carried and the deadline its remote calls ran under.  A
\* call that runs into the deadline fails like any other failing call.
WithTimeout(i, timeouts) ==
    i @@ [timeouts |-> timeouts, timeout |-> Deref(timeouts[TimeoutKey(i.op)])]

\* Create is called on an untracked resource with the configuration as data.
SecurityGroupCreate ==
    /\ resourceType = SecurityGroup
    /\ inv.op = "idle"
    /\ state.id = <<>>
    /\ nextID <= MaxObjects
    /\ \E cfg \in SGConfigs :
         LET d == [id |-> <<>>, name |-> cfg.name,
                   description |-> cfg.description,
                   external_sources |-> cfg.external_sources]
         IN \E r \in resourceSecurityGroupCreate(d, remote, IdOf(nextID)) :
              /\ \E t \in ResourceTimeouts :
                   inv' = WithTimeout(Invocation("Create", cfg, d, r), t)
              /\ remote' = r.remote
              /\ nextID' = IF r.calls[1].res = "ok" THEN nextID + 1 ELSE nextID
    /\ UNCHANGED <<resourceType, state>>

\* Read (refresh) is called on a tracked resource with the stored state.
SecurityGroupRead ==
    /\ resourceType = SecurityGroup
    /\ inv.op = "idle"
    /\ state.id # <<>>
    /\ \E r \in resourceSecurityGroupRead(state, remote) :
         /\ \E t \in ResourceTimeouts :
              inv' = WithTimeout(Invocation("Read", Nil, state, r), t)
         /\ remote' = r.remote
    /\ UNCHANGED <<resourceType, state, nextID>>

\* Update is called with the desired external sources merged over the stored
\* state (name and description force a new resource and never reach Update).
SecurityGroupUpdate ==
    /\ resourceType = SecurityGroup
    /\ inv.op = "idle"
    /\ state.id # <<>>
    /\ \E desired \in SUBSET CIDRs :
         LET d == [state EXCEPT !.external_sources = desired]
         IN \E r \in resourceSecurityGroupUpdate(d, state, remote) :
              /\ \E t \in ResourceTimeouts :
                   inv' = WithTimeout(Invocation("Update", desired, state, r), t)
              /\ remote' = r.remote
    /\ UNCHANGED <<resourceType, state, nextID>>

SecurityGroupDelete ==
    /\ resourceType = SecurityGroup
    /\ inv.op = "idle"
    /\ state.id # <<>>
    /\ \E r \in resourceSecurityGroupDelete(state, remote) :
         /\ \E t \in ResourceTimeouts :
              inv' = WithTimeout(Invocation("Delete", Nil, state, r), t)
         /\ remote' = r.remote
    /\ UNCHANGED <<resourceType, state, nextID>>

\* The identifiers an operator may hand to Import: identifiers and names.
ImportIDs == {IdOf(n) : n \in 1..MaxObjects} \cup {ToLower(n) : n \in SGNames}

\* Import is called on an untracked resource; the data holds only the
\* identifier the operator supplied.
SecurityGroupImport ==
    /\ resourceType = SecurityGroup
    /\ inv.op = "idle"
    /\ state.id = <<>>
    /\ \E x \in ImportIDs :
         LET d == [NoSecurityGroup EXCEPT !.id = x]
         IN \E r \in resourceSecurityGroupImport(d, remote) :
              /\ \E t \in ResourceTimeouts :
                   inv' = WithTimeout(Invocation("Import", x, d, r), t)
              /\ remote' = r.remote
    /\ UNCHANGED <<resourceType, state, nextID>>

\* Between two operations the external sources of a remote group are changed
\* behind the adapter's back.
SecurityGroupDrift ==
    /\ resourceType = SecurityGroup
    /\ inv.op = "idle"
    /\ \E g \in remote, es \in SUBSET CIDRs :
         /\ es # g.external_sources
         /\ remote' = (remote \ {g}) \cup {[g EXCEPT !.external_sources = es]}
    /\ UNCHANGED <<resourceType, state, inv, nextID>>

\* The data Create and Update are called with for a configuration: an
\* optional and computed attribute (description, healthcheck) that the
\* configuration leaves out keeps its stored value.
ElasticIPPlan(cfg, prior) ==
    [id |-> prior.id,
     description |-> IF cfg.description = <<>> THEN prior.description
                     ELSE cfg.description,
     labels |-> cfg.labels,
     reverse_dns |-> cfg.reverse_dns,
     healthcheck |-> IF cfg.healthcheck = <<>> THEN prior.healthcheck
                     ELSE resourceElasticIPHealthcheck(cfg.healthcheck)]

ElasticIPCreate ==
    /\ resourceType = ElasticIP
    /\ inv.op = "idle"
    /\ state.id = <<>>
    /\ nextID <= MaxObjects
    /\ \E cfg \in EIPConfigs :
         LET d == ElasticIPPlan(cfg, NoElasticIP)
         IN \E r \in resourceElasticIPCreate(d, remote, IdOf(nextID)) :
              /\ \E t \in ResourceTimeouts :
                   inv' = WithTimeout(Invocation("Create", cfg, d, r), t)
              /\ remote' = r.remote
              /\ nextID' = IF r.calls[1].res = "ok" THEN nextID + 1 ELSE nextID
    /\ UNCHANGED <<resourceType, state>>

ElasticIPRead ==
    /\ resourceType = ElasticIP
    /\ inv.op = "idle"
    /\ state.id # <<>>
    /\ \E r \in resourceElasticIPRead(state, remote) :
         /\ \E t \in ResourceTimeouts :
              inv' = WithTimeout(Invocation("Read", Nil, state, r), t)
         /\ remote' = r.remote
    /\ UNCHANGED <<resourceType, state, nextID>>

ElasticIPUpdate ==
    /\ resourceType = ElasticIP
    /\ inv.op = "idle"
    /\ state.id # <<>>
    /\ \E cfg \in EIPConfigs :
         LET d == ElasticIPPlan(cfg, state)
         IN \E r \in resourceElasticIPUpdate(d, state, remote) :
              /\ \E t \in ResourceTimeouts :
                   inv' = WithTimeout(Invocation("Update", cfg, state, r), t)
              /\ remote' = r.remote
    /\ UNCHANGED <<resourceType, state, nextID>>

ElasticIPDelete ==
    /\ resourceType = ElasticIP
    /\ inv.op = "idle"
    /\ state.id # <<>>
    /\ \E r \in resourceElasticIPDelete(state, remote) :
         /\ \E t \in ResourceTimeouts :
              inv' = WithTimeout(Invocation("Delete", Nil, state, r), t)
         /\ remote' = r.remote
    /\ UNCHANGED <<resourceType, state, nextID>>

\* The resource data of a resource that is not tracked.
Untracked ==
    IF resourceType = SecurityGroup THEN NoSecurityGroup ELSE NoElasticIP

\* The host engine takes the handler's result: it keeps the data the handler
\* left whenever the handler did not crash and the data holds an identifier,
\* drops the record when the identifier is empty or Delete succeeded, and
\* keeps the stored state when Read, Delete or Import failed.
Persist ==
    /\ inv.op # "idle"
    /\ state' =
         CASE inv.diag = "panic" -> state
           [] inv.op = "Delete" -> IF inv.diag = "ok" THEN Untracked ELSE state
           [] inv.op \in {"Read", "Import"} /\ inv.diag # "ok" -> state
           [] inv.d.id = <<>> -> Untracked
           [] OTHER -> inv.d
    /\ inv' = Idle
    /\ UNCHANGED <<resourceType, remote, nextID>>

Init ==
    /\ resourceType \in ResourceTypes
    /\ remote = {}
    /\ state = Untracked
    /\ inv = Idle
    /\ nextID = 1

Next ==
    \/ SecurityGroupCreate
    \/ SecurityGroupRead
    \/ SecurityGroupUpdate
    \/ SecurityGroupDelete
    \/ SecurityGroupImport
    \/ SecurityGroupDrift
    \/ ElasticIPCreate
    \/ ElasticIPRead
    \/ ElasticIPUpdate
    \/ ElasticIPDelete
    \/ Persist

Spec == Init /\ [][Next]_vars

\* A run that manages a security group.
InitSecurityGroup == Init /\ resourceType = SecurityGroup

NextSecurityGroup ==
    \/ SecurityGroupCreate
    \/ SecurityGroupRead
    \/ SecurityGroupUpdate
    \/ SecurityGroupDelete
    \/ SecurityGroupImport
    \/ SecurityGroupDrift
    \/ Persist

SpecSecurityGroup == InitSecurityGroup /\ [][NextSecurityGroup]_vars

\* A run that manages an elastic IP.
InitElasticIP == Init /\ resourceType = ElasticIP

NextElasticIP ==
    \/ ElasticIPCreate
    \/ ElasticIPRead
    \/ ElasticIPUpdate
    \/ ElasticIPDelete
    \/ Persist

SpecElasticIP == InitElasticIP /\ [][NextElasticIP]_vars

\* The host engine finds a persisted state of schema version 0 and calls the
\* upgrade on it; the upgraded state is persisted, and an error aborts the
\* operation with the persisted state untouched.
SecurityGroupStateUpgrade ==
    /\ resourceType = SecurityGroup
    /\ LET r == resourceSecurityGroupStateUpgradeV0(state)
       IN /\ inv' = [op |-> "StateUpgradeV0", arg |-> state, prior |-> state,
                     d |-> r.state, calls |-> <<>>,
                     diag |-> IF r.err THEN "error" ELSE "ok"]
          /\ state' = IF r.err THEN state ELSE Deref(r.state)
    /\ UNCHANGED <<resourceType, remote, nextID>>

\* A run that starts from a persisted state of schema version 0.
InitStateUpgrade ==
    /\ resourceType = SecurityGroup
    /\ remote = {}
    /\ state \in RawStates
    /\ inv = Idle
    /\ nextID = 1

NextStateUpgrade == SecurityGroupStateUpgrade

SpecStateUpgrade == InitStateUpgrade /\ [][NextStateUpgrade]_vars

----------------------------------------------------------------------------
(* Properties.  They read the record inv of the handler that has returned. *)

\* Every remote call of the handler succeeded.
AllCallsOK == \A i \in DOMAIN inv.calls : inv.calls[i].res = "ok"

\* How many calls of operation op carried argument arg.
CountCalls(op, arg) ==
    Cardinality({i \in DOMAIN inv.calls :
                   inv.calls[i].op = op /\ inv.calls[i].arg = arg})

\* How many calls of operation op were issued.
CountOp(op) == Cardinality({i \in DOMAIN inv.calls : inv.calls[i].op = op})

Fetches == {"GetSecurityGroup", "GetElasticIP"}

\* C1: Read, for a security group and for an elastic IP: when the fetch of
\* the stored identifier returns not-found, Read empties the identifier and
\* returns no diagnostics (and calls nothing else); when the fetch fails with
\* another error, Read returns an error and leaves the identifier as it was.
C1_ReadNotFoundClearsID ==
    inv.op = "Read" =>
      /\ inv.calls[1].op \in Fetches
      /\ inv.calls[1].arg = inv.prior.id
      /\ inv.calls[1].res = ErrNotFound =>
           /\ inv.d.id = <<>>
           /\ inv.diag = "ok"
           /\ Len(inv.calls) = 1
      /\ inv.calls[1].res = ErrOther =>
           /\ inv.d.id = inv.prior.id
           /\ inv.diag = "error"
           /\ Len(inv.calls) = 1

\* A Read of a tracked security group whose fetch reported not-found.
C1_Witness ==
    /\ resourceType = SecurityGroup
    /\ inv.op = "Read"
    /\ inv.prior.id # <<>>
    /\ inv.calls[1].res = ErrNotFound
    /\ inv.d.id = <<>>
    /\ inv.diag = "ok"

\* C2: security group Update, when no remote call fails: exactly one add
\* call for each element of desired minus last-known, exactly one remove call
\* for each element of last-known minus desired, none for any other element,
\* and so none at all when the two sets are equal.
C2_UpdateDiffCalls ==
    (resourceType = SecurityGroup /\ inv.op = "Update" /\ AllCallsOK) =>
      LET S1 == inv.prior.external_sources
          S2 == inv.arg
      IN \A c \in CIDRs :
           /\ CountCalls("AddExternalSourceToSecurityGroup", c) =
                IF c \in S2 \ S1 THEN 1 ELSE 0
           /\ CountCalls("RemoveExternalSourceFromSecurityGroup", c) =
                IF c \in S1 \ S2 THEN 1 ELSE 0

\* An Update that both adds and removes a source, every call succeeding.
C2_Witness ==
    /\ resourceType = SecurityGroup
    /\ inv.op = "Update"
    /\ AllCallsOK
    /\ inv.arg \ inv.prior.external_sources # {}
    /\ inv.prior.external_sources \ inv.arg # {}
    /\ CountOp("AddExternalSourceToSecurityGroup") = 1
    /\ CountOp("RemoveExternalSourceFromSecurityGroup") = 1

SecondaryCalls == {"AddExternalSourceToSecurityGroup", "UpdateElasticIPReverseDNS"}

Deletes == {"DeleteSecurityGroup", "DeleteElasticIP"}

\* C3: Create, for a security group and for an elastic IP, stores the
\* identifier the create call returned before any secondary call: whenever a
\* secondary call (add-external-source, set-reverse-DNS) fails, Create returns
\* an error, issues no delete call, and the data holds the identifier of the
\* object the create call made.
C3_CreateStoresIDBeforeSecondary ==
    (/\ inv.op = "Create"
     /\ \E i \in DOMAIN inv.calls :
          inv.calls[i].op \in SecondaryCalls /\ inv.calls[i].res # "ok") =>
      /\ inv.diag = "error"
      /\ \A i \in DOMAIN inv.calls : inv.calls[i].op \notin Deletes
      /\ \A x \in remote :
           x.id = Deref(inv.calls[1].val.ID) => inv.d.id = x.id

\* The simple attributes Update finds changed between the stored state and
\* the data it is called with.
SimpleChanged(d, old) ==
    \/ d.labels # old.labels
    \/ d.description # old.description
    \/ HealthcheckChanges(d, old) # {}

\* The request req carries the changed simple attributes of d over the
\* fetched object.
CarriesChanges(req, d, old, fetched) ==
    LET ch == HealthcheckChanges(d, old)
        n == resElasticIPAttrHealthcheck(d)
        hc == Deref(req.Healthcheck)
    IN /\ req.ID = fetched.ID
       /\ req.Labels = IF d.labels # old.labels THEN Ptr(d.labels)
                       ELSE fetched.Labels
       /\ req.Description = IF d.description # old.description
                            THEN Ptr(d.description) ELSE fetched.Description
       /\ ch = {} => req.Healthcheck = fetched.Healthcheck
       /\ ch # {} =>
            /\ req.Healthcheck # Nil
            /\ "mode" \in ch => hc.Mode = Ptr(n.mode)
            /\ "port" \in ch => hc.Port = Ptr(n.port)
            /\ "interval" \in ch => hc.Interval = Ptr(n.interval * Second)
            /\ "timeout" \in ch => hc.Timeout = Ptr(n.timeout * Second)
            /\ "strikes_fail" \in ch => hc.StrikesFail = Ptr(n.strikes_fail)
            /\ "strikes_ok" \in ch => hc.StrikesOK = Ptr(n.strikes_ok)
            /\ "tls_sni" \in ch => hc.TLSSNI = Ptr(n.tls_sni)
            /\ "tls_skip_verify" \in ch => hc.TLSSkipVerify = Ptr(n.tls_skip_verify)
            /\ "uri" \in ch => hc.URI = Ptr(n.uri)

\* C4: elastic IP Update, once the object is fetched: exactly one
\* update-elastic-IP call, carrying every changed simple attribute merged
\* into the fetched object, when at least one simple attribute changed, and
\* no such call when none changed.
C4_UpdateIssuesOneBatchedCall ==
    (resourceType = ElasticIP /\ inv.op = "Update" /\ inv.calls[1].res = "ok") =>
      LET d == ElasticIPPlan(inv.arg, inv.prior)
      IN /\ CountOp("UpdateElasticIP") =
              IF SimpleChanged(d, inv.prior) THEN 1 ELSE 0
         /\ \A i \in DOMAIN inv.calls :
              inv.calls[i].op = "UpdateElasticIP" =>
                CarriesChanges(inv.calls[i].arg, d, inv.prior, inv.calls[1].val)

\* C5: elastic IP Delete: the reverse-DNS delete call comes first; when it
\* succeeds or reports not-found the primary delete call follows; any other
\* error of it fails Delete with no primary delete call; and Delete succeeds
\* exactly when the primary delete call succeeds.
C5_DeleteReverseDNSFirst ==
    (resourceType = ElasticIP /\ inv.op = "Delete") =>
      /\ inv.calls[1].op = "DeleteElasticIPReverseDNS"
      /\ inv.calls[1].res \in {"ok", ErrNotFound} =>
           /\ Len(inv.calls) = 2
           /\ inv.calls[2].op = "DeleteElasticIP"
           /\ inv.calls[2].arg = Ptr(inv.prior.id)
      /\ inv.calls[1].res = ErrOther =>
           /\ Len(inv.calls) = 1
           /\ inv.diag = "error"
      /\ inv.diag = "ok" <=>
           (Len(inv.calls) = 2 /\ inv.calls[2].res = "ok")

\* A Delete that found no reverse-DNS record and went on to succeed.
C5_Witness ==
    /\ resourceType = ElasticIP
    /\ inv.op = "Delete"
    /\ inv.calls[1].res = ErrNotFound
    /\ Len(inv.calls) = 2
    /\ inv.calls[2].res = "ok"
    /\ inv.diag = "ok"

\* The i-th call is the fetch of Read (run alone, or at the end of Create or
\* Update); the first fetch of Update is Update's own.
ReadFetch(i) ==
    /\ inv.calls[i].op \in Fetches
    /\ ~(inv.op = "Update" /\ i = 1)

Tolerated(i) ==
    /\ inv.calls[i].res = ErrNotFound
    /\ \/ ReadFetch(i)
       \/ inv.calls[i].op = "GetElasticIPReverseDNS"
       \/ inv.op = "Delete" /\ inv.calls[i].op = "DeleteElasticIPReverseDNS"

C7_CreateRoundTrip ==
    (/\ resourceType = ElasticIP
     /\ inv.op = "Create"
     /\ AllCallsOK
     /\ inv.diag = "ok") =>
      /\ inv.d.description = inv.arg.description
      /\ inv.d.labels = inv.arg.labels
      /\ inv.d.reverse_dns = inv.arg.reverse_dns
      /\ inv.d.healthcheck = resourceElasticIPHealthcheck(inv.arg.healthcheck)

\* C8: after a successful Read of a security group, name, description and
\* external_sources in the data equal the fetched object's, an absent
\* description read as "" and absent external sources as the empty set.
C8_ReadMirrorsRemote ==
    (/\ resourceType = SecurityGroup
     /\ inv.op = "Read"
     /\ inv.calls[1].res = "ok"
     /\ inv.diag = "ok") =>
      LET o == inv.calls[1].val
      IN /\ inv.d.name = Deref(o.Name)
         /\ inv.d.description = IF o.Description = Nil THEN <<>>
                                ELSE Deref(o.Description)
         /\ inv.d.external_sources = IF o.ExternalSources = Nil THEN {}
                                     ELSE Deref(o.ExternalSources)

\* C9: a successful Import of a security group leaves the data a successful
\* Read of the group it found leaves, the identifier included, which is the
\* identifier the provider assigned to the group.
C9_ImportStoresProviderID ==
    (/\ resourceType = SecurityGroup
     /\ inv.op = "Import"
     /\ inv.diag = "ok") =>
      LET o == inv.calls[1].val
      IN /\ inv.d.id = Deref(o.ID)
         /\ inv.d.name = Deref(o.Name)
         /\ inv.d.description = IF o.Description = Nil THEN <<>>
                                ELSE Deref(o.Description)
         /\ inv.d.external_sources = IF o.ExternalSources = Nil THEN {}
                                     ELSE Deref(o.ExternalSources)

\* C10: security group Create with a name and a set E of external sources,
\* when no remote call fails: one create call, then one add call per element
\* of E, then the fetch of Read, and nothing else; the data then holds the
\* name in lower case, as the API returned it, and external_sources = E.
C10_CreateCallSequence ==
    (resourceType = SecurityGroup /\ inv.op = "Create" /\ AllCallsOK) =>
      LET E == inv.arg.external_sources
          n == Cardinality(E)
      IN /\ Len(inv.calls) = n + 2
         /\ inv.calls[1].op = "CreateSecurityGroup"
         /\ inv.calls[1].arg.Name = Ptr(inv.arg.name)
         /\ \A i \in 2..(n + 1) :
              inv.calls[i].op = "AddExternalSourceToSecurityGroup"
         /\ \A c \in E : CountCalls("AddExternalSourceToSecurityGroup", c) = 1
         /\ inv.calls[n + 2].op = "GetSecurityGroup"
         /\ inv.calls[n + 2].arg = Deref(inv.calls[1].val.ID)
         /\ inv.diag = "ok"
         /\ inv.d.id = Deref(inv.calls[1].val.ID)
         /\ inv.d.name = Deref(inv.calls[n + 2].val.Name)
         /\ inv.d.name = ToLower(inv.arg.name)
         /\ inv.d.external_sources = E

\* Create of "Web" with the one source 10.0.0.0/24: two calls and the fetch,
\* and the name "web".
C10_Witness ==
    /\ resourceType = SecurityGroup
    /\ inv.op = "Create"
    /\ AllCallsOK
    /\ inv.arg.name = <<"W", "e", "b">>
    /\ inv.arg.external_sources = {"10.0.0.0/24"}
    /\ CountOp("CreateSecurityGroup") = 1
    /\ CountOp("AddExternalSourceToSecurityGroup") = 1
    /\ inv.d.name = <<"w", "e", "b">>
    /\ inv.d.external_sources = {"10.0.0.0/24"}

\* C11: an elastic IP Create whose healthcheck block omits interval sends a
\* create request with an interval of 10 seconds, and after the concluding
\* Read the stored interval is 10; likewise an omitted timeout, strikes_fail
\* and strikes_ok are sent and stored as 3, 2 and 3.
C11_CreateAppliesHealthcheckDefaults ==
    (inv.op = "Create" /\ resourceType = ElasticIP /\ inv.arg.healthcheck # <<>>) =>
      LET b == inv.arg.healthcheck[1]
          req == Deref(inv.calls[1].arg.Healthcheck)
          stored == inv.d.healthcheck[1]
          read == inv.diag = "ok"
      IN  /\ inv.calls[1].arg.Healthcheck # Nil
          /\ b.interval = Nil =>
                /\ req.Interval = Ptr(10 * Second)
                /\ read => stored.interval = 10
          /\ b.timeout = Nil =>
                /\ req.Timeout = Ptr(3 * Second)
                /\ read => stored.timeout = 3
          /\ b.strikes_fail = Nil =>
                /\ req.StrikesFail = Ptr(2)
                /\ read => stored.strikes_fail = 2
          /\ b.strikes_ok = Nil =>
                /\ req.StrikesOK = Ptr(3)
                /\ read => stored.strikes_ok = 3

\* A Create with the block (mode tcp, port 80) and nothing else has ended
\* with its Read.
C11_Witness ==
    /\ inv.op = "Create"
    /\ resourceType = ElasticIP
    /\ inv.diag = "ok"
    /\ inv.arg.healthcheck # <<>>
    /\ inv.arg.healthcheck[1].mode = ModeTCP
    /\ inv.arg.healthcheck[1].interval = Nil
    /\ inv.arg.healthcheck[1].timeout = Nil
    /\ inv.d.healthcheck[1].interval = 10
    /\ inv.calls[Len(inv.calls)].op = "GetElasticIPReverseDNS"

\* The name of a raw state can be read: the key is there and holds a string.
NameIsString(rawState) ==
    "name" \in DOMAIN rawState /\ rawState["name"].type = "string"

\* C12: for every raw state of version 0 whose name is a string, the upgrade
\* returns the same state with the name lower-cased and every other key
\* unchanged, and the upgrade of its output is that output.
C12_UpgradeLowersNameOnly ==
    (inv.op = "StateUpgradeV0" /\ NameIsString(inv.arg)) =>
      /\ inv.diag = "ok"
      /\ inv.d # Nil
      /\ LET out == Deref(inv.d)
         IN /\ DOMAIN out = DOMAIN inv.arg
            /\ out["name"] = StringValue(ToLower(inv.arg["name"].str))
            /\ \A i \in DOMAIN out["name"].str :
                  out["name"].str[i] \notin {"W", "E", "B"}
            /\ \A k \in DOMAIN out \ {"name"} : out[k] = inv.arg[k]
            /\ state = out
            /\ resourceSecurityGroupStateUpgradeV0(out) =
                  [state |-> Ptr(out), err |-> FALSE]

\* The raw state named "Web" with an upper-case description was upgraded.
C12_Witness ==
    /\ inv.op = "StateUpgradeV0"
    /\ NameIsString(inv.arg)
    /\ inv.arg["name"].str = <<"W", "e", "b">>
    /\ "description" \in DOMAIN inv.arg
    /\ inv.arg["description"] = StringValue(<<"W">>)
    /\ inv.diag = "ok"
    /\ Deref(inv.d)["name"].str = <<"w", "e", "b">>

\* C13: when the raw state has no name key or its name is not a string, the
\* upgrade returns an error and a nil state, makes no remote call, and the
\* persisted state is not transformed.
C13_UpgradeRejectsBadName ==
    (inv.op = "StateUpgradeV0" /\ ~NameIsString(inv.arg)) =>
      /\ inv.diag = "error"
      /\ inv.d = Nil
      /\ inv.calls = <<>>
      /\ remote = {}
      /\ state = inv.arg

\* The upgrade was called on a raw state whose name is a number.
C13_Witness ==
    /\ inv.op = "StateUpgradeV0"
    /\ "name" \in DOMAIN inv.arg
    /\ inv.arg["name"].type = "float64"
    /\ "description" \in DOMAIN inv.arg
    /\ inv.diag = "error"

\* The phase of each lifecycle operation.
PhaseKey(op) ==
    CASE op = "Create" -> TimeoutCreate
      [] op = "Read" -> TimeoutRead
      [] op = "Update" -> TimeoutUpdate
      [] op = "Delete" -> TimeoutDelete

\* C14: Create, Read, Update and Delete of a security group and of an
\* elastic IP each run their remote calls under the timeout configured for
\* their own phase.
C14_TimeoutOfOwnPhase ==
    inv.op \in {"Create", "Read", "Update", "Delete"} =>
      /\ inv.timeouts[PhaseKey(inv.op)] # Nil
      /\ inv.timeout = Deref(inv.timeouts[PhaseKey(inv.op)])

\* C15: Update and Read of an elastic IP never end by a nil dereference,
\* whatever sub-objects the fetched elastic IP lacks and whatever attributes
\* changed: they end by returning diagnostics.
C15_NoNilDereference ==
    (resourceType = ElasticIP /\ inv.op \in {"Update", "Read"}) =>
      inv.diag \in {"ok", "error"}

\* The positions of the reverse-DNS mutation calls of the handler.
ReverseDNSCalls ==
    {i \in DOMAIN inv.calls :
       inv.calls[i].op \in {"UpdateElasticIPReverseDNS", "DeleteElasticIPReverseDNS"}}

\* C16: an elastic IP Update whose reverse_dns changed issues one
\* reverse-DNS call once the fetch and the batched update call (when there
\* is one) have succeeded: a delete when the new value is empty, otherwise a
\* set with the new value.  It issues none when reverse_dns did not change,
\* and the concluding Read runs only after every preceding call succeeded.
C16_UpdateReverseDNS ==
    (resourceType = ElasticIP /\ inv.op = "Update") =>
      LET d == ElasticIPPlan(inv.arg, inv.prior)
          changed == d.reverse_dns # inv.prior.reverse_dns
          before(i) == \A j \in 1..(i - 1) : inv.calls[j].res = "ok"
          batched == {i \in DOMAIN inv.calls : inv.calls[i].op = "UpdateElasticIP"}
          reads == {i \in DOMAIN inv.calls :
                      i > 1 /\ inv.calls[i].op = "GetElasticIP"}
          reached == /\ inv.calls[1].res = "ok"
                     /\ \A i \in batched : inv.calls[i].res = "ok"
      IN  /\ ~changed => ReverseDNSCalls = {}
          /\ changed =>
                /\ Cardinality(ReverseDNSCalls) = IF reached THEN 1 ELSE 0
                /\ \A i \in ReverseDNSCalls :
                      /\ before(i)
                      /\ \A j \in batched : j < i
                      /\ IF d.reverse_dns = <<>>
                         THEN inv.calls[i].op = "DeleteElasticIPReverseDNS"
                         ELSE /\ inv.calls[i].op = "UpdateElasticIPReverseDNS"
                              /\ inv.calls[i].arg = d.reverse_dns
          /\ \A i \in reads : before(i) /\ \A j \in ReverseDNSCalls : j < i

====
